---- MODULE Spec2Model ----
(***************************************************************************)
(* Model of vigenere_cracker.py: the Vigenere cracker over the 33-letter   *)
(* Russian alphabet.                                                       *)
(*                                                                         *)
(* A character is its Unicode code point, a str is a sequence of code      *)
(* points.  A Python float is an IEEE-754 binary64 value, modelled bit for *)
(* bit (53-bit significand, round to nearest, ties to even) in the range   *)
(* the program uses (no subnormal, no overflow: every value is 0, inf, or  *)
(* lies between 2^-40 and 2^5).                                            *)
(***************************************************************************)
EXTENDS Integers, Sequences, FiniteSets, TLC

VARIABLES
  pc,             \* where the program stands
  ciphertext,     \* the ciphertext argument / local
  key,            \* the key argument, or the key a function assembled
  shifts,         \* the shifts argument of crack_vigenere
  max_len,        \* the max_len argument of guess_key_length
  plaintext,      \* the plaintext a function returned
  key_length,     \* the local key_length
  key_shifts,     \* the local key_shifts
  likely_shifts,  \* the local likely_shifts of crack_vigenere
  line,           \* what input() returned last, << >> before any input
  shift,          \* the local shift of the prompt loop: << >> or <<value>>
  raised,         \* the exception that left the function, "" when none
  result          \* the value a pure function returned

vars == <<pc, ciphertext, key, shifts, max_len, plaintext, key_length,
          key_shifts, likely_shifts, line, shift, raised, result>>

(***************************************************************************)
(* Characters and the alphabet                                             *)
(***************************************************************************)

\* ALPHABET = 'абвгдеёжзийклмнопрстуфхцчшщъыьэюя' as code points
\* ('ё' is U+0451 = 1105 and sits at index 6, between 'е' and 'ж').
ALPHABET ==
  << 1072, 1073, 1074, 1075, 1076, 1077, 1105, 1078, 1079, 1080, 1081,
     1082, 1083, 1084, 1085, 1086, 1087, 1088, 1089, 1090, 1091, 1092,
     1093, 1094, 1095, 1096, 1097, 1098, 1099, 1100, 1101, 1102, 1103 >>

ALPHABET_LENGTH == Len(ALPHABET)

\* c in ALPHABET
InAlphabet(c) == \E i \in 1..Len(ALPHABET) : ALPHABET[i] = c

\* ALPHABET.index(c), 0-based (the code only calls it on alphabet letters)
AlphabetIndex(c) == (CHOOSE i \in 1..Len(ALPHABET) : ALPHABET[i] = c) - 1

\* ALPHABET[idx], 0-based
AlphabetAt(idx) == ALPHABET[idx + 1]

\* str.lower() on one character: Cyrillic 'А'..'Я' (1040..1071) and 'Ё'
\* (1025), Latin 'A'..'Z'; every other character of the model is unchanged.
Lower(c) ==
  IF c >= 1040 /\ c <= 1071 THEN c + 32
  ELSE IF c = 1025 THEN 1105
  ELSE IF c >= 65 /\ c <= 90 THEN c + 32
  ELSE c

\* A sequence given element by element, held as a list: each element is
\* computed once, when the list is built.
List(s) == s \o << >>

LowerText(text) == List([i \in 1..Len(text) |-> Lower(text[i])])

\* ''.join(c for c in text.lower() if c in ALPHABET)
clean_text(text) == SelectSeq(LowerText(text), InAlphabet)

\* text[i::n] for i >= 0, n >= 1
Stride(text, i, n) ==
  IF i >= Len(text) THEN << >>
  ELSE List([j \in 1..((Len(text) - i + n - 1) \div n) |->
               text[i + (j - 1) * n + 1]])

\* [text[i::n] for i in range(n)]
SplitParts(text, n) == List([i \in 1..n |-> Stride(text, i - 1, n)])

(***************************************************************************)
(* count_letter_frequencies                                                *)
(***************************************************************************)

\* The positions of text holding a character for the first time: one per
\* key of the defaultdict, which keeps its keys in insertion order.
FirstPositions(text) ==
  {i \in 1..Len(text) : \A j \in 1..(i - 1) : text[j] # text[i]}

\* for c in text: counts[c] += 1, for one key c
CountOf(text, c) == Cardinality({i \in 1..Len(text) : text[i] = c})

\* counts.items(): (letter, count) pairs in insertion order
CountItems(text) ==
  LET F == FirstPositions(text)
      At(k) == CHOOSE i \in F : Cardinality({j \in F : j < i}) = k - 1
  IN List([k \in 1..Cardinality(F) |->
             <<text[At(k)], CountOf(text, text[At(k)])>>])

\* A variant of the sort that puts the later of two items of equal count
\* first
SortedDescTiesLast(items) ==
  LET Before(j) ==
        {h \in 1..Len(items) :
           items[h][2] > items[j][2]
             \/ (items[h][2] = items[j][2] /\ h > j)}
  IN List([r \in 1..Len(items) |->
             items[CHOOSE j \in 1..Len(items) : Cardinality(Before(j)) = r - 1]])

\* sorted(items, key=lambda item: item[1], reverse=True).  The sort is
\* stable, also with reverse=True: an item comes after every item of a
\* higher count and after the items of its own count that precede it.
SortedDesc(items) ==
  LET Before(j) == {h \in 1..Len(items) :
                      \/ items[h][2] > items[j][2]
                      \/ items[h][2] = items[j][2] /\ h < j}
  IN List([r \in 1..Len(items) |->
             items[CHOOSE j \in 1..Len(items) : Cardinality(Before(j)) = r - 1]])

count_letter_frequencies(text) == SortedDesc(CountItems(text))

(***************************************************************************)
(* Python floats: IEEE-754 binary64                                        *)
(*                                                                         *)
(* A finite non-zero value is [kind |-> "fin", e, m]: m is its significand *)
(* of MANT_DIG bits, most significant first, m[1] = 1, and the value is    *)
(* 0.m[1]m[2]...m[53] (binary) * 2^e.  Only non-negative values occur:     *)
(* the one subtraction of the program is taken under abs().                *)
(***************************************************************************)

\* sys.float_info.mant_dig of the float that / produces
MANT_DIG == 53

FloatZero == [kind |-> "zero", e |-> 0, m |-> << >>]

\* float('inf')
FloatInf == [kind |-> "inf", e |-> 0, m |-> << >>]

Fin(e, m) == [kind |-> "fin", e |-> e, m |-> m]

Zeros(n) == List([i \in 1..n |-> 0])

\* 2^k mod d
RECURSIVE Pow2Mod(_, _)
Pow2Mod(k, d) ==
  IF k = 0 THEN 1 % d
  ELSE LET h == Pow2Mod(k \div 2, d)
       IN IF k % 2 = 1 THEN (2 * ((h * h) % d)) % d ELSE (h * h) % d

\* bits + 1 for a bit sequence that is not all ones
IncBits(bits) ==
  LET last == CHOOSE j \in 1..Len(bits) :
                bits[j] = 0 /\ \A i \in (j + 1)..Len(bits) : bits[i] = 1
  IN List([i \in 1..Len(bits) |->
             IF i < last THEN bits[i] ELSE IF i = last THEN 1 ELSE 0])

\* The exact value 0.bits * 2^e (bits[1] = 1), plus something positive below
\* the last bit when sticky, rounded to MANT_DIG bits: to nearest, ties to
\* even.
RoundBits(e, bits, sticky) ==
  LET n == Len(bits) IN
  IF n <= MANT_DIG THEN Fin(e, bits \o Zeros(MANT_DIG - n))
  ELSE LET kept == SubSeq(bits, 1, MANT_DIG)
           guard == bits[MANT_DIG + 1]
           rest == sticky \/ \E i \in (MANT_DIG + 2)..n : bits[i] = 1
           up == guard = 1 /\ (rest \/ kept[MANT_DIG] = 1)
       IN IF ~up THEN Fin(e, kept)
          ELSE IF \A i \in 1..MANT_DIG : kept[i] = 1
               THEN Fin(e + 1, <<1>> \o Zeros(MANT_DIG - 1))
               ELSE Fin(e, IncBits(kept))

\* 0.bits * 2^e with the leading zero bits of bits dropped; bits holds a 1
StripBits(e, bits) ==
  LET first == CHOOSE j \in 1..Len(bits) :
                 bits[j] = 1 /\ \A i \in 1..(j - 1) : bits[i] = 0
  IN <<e - (first - 1), SubSeq(bits, first, Len(bits))>>

\* a + b for bit sequences of one length n: n + 1 bits.  The carry into
\* bit i comes from a lower bit j where both are 1, through bits where
\* exactly one is 1.
AddBits(a, b) ==
  LET n == Len(a)
      CarryIn(i) == \E j \in (i + 1)..n :
                      /\ a[j] = 1 /\ b[j] = 1
                      /\ \A h \in (i + 1)..(j - 1) : a[h] + b[h] = 1
      Carry(i) == IF CarryIn(i) THEN 1 ELSE 0
  IN List([i \in 1..(n + 1) |->
             IF i = 1 THEN Carry(0)
             ELSE (a[i - 1] + b[i - 1] + Carry(i - 1)) % 2])

\* a - b for bit sequences of one length n with a >= b.  The borrow into
\* bit i comes from a lower bit j where a has 0 and b has 1, through bits
\* where they agree.
SubBits(a, b) ==
  LET n == Len(a)
      BorrowIn(i) == \E j \in (i + 1)..n :
                       /\ a[j] = 0 /\ b[j] = 1
                       /\ \A h \in (i + 1)..(j - 1) : a[h] = b[h]
  IN List([i \in 1..n |->
             (2 + a[i] - b[i] - (IF BorrowIn(i) THEN 1 ELSE 0)) % 2])

\* x < y
FloatLess(x, y) ==
  IF x.kind = "inf" THEN FALSE
  ELSE IF y.kind = "inf" THEN TRUE
  ELSE IF y.kind = "zero" THEN FALSE
  ELSE IF x.kind = "zero" THEN TRUE
  ELSE IF x.e # y.e THEN x.e < y.e
  ELSE \E i \in 1..MANT_DIG :
         x.m[i] < y.m[i] /\ \A j \in 1..(i - 1) : x.m[j] = y.m[j]

\* n, d and e with n < d <= 2n and n/d * 2^e the quotient given
RECURSIVE ScaleQuotient(_, _, _)
ScaleQuotient(n, d, e) ==
  IF n >= d THEN ScaleQuotient(n, 2 * d, e + 1)
  ELSE IF 2 * n < d THEN ScaleQuotient(2 * n, d, e - 1)
  ELSE <<n, d, e>>

\* n / d for ints n >= 0 and d > 0: the float nearest to the quotient.
\* Bit i of the binary expansion of n/d (n < d) is 1 iff twice the
\* remainder left after i - 1 bits, n * 2^(i-1) mod d, reaches d.
IntTrueDiv(n, d) ==
  IF n = 0 THEN FloatZero
  ELSE LET s == ScaleQuotient(n, d, 0)
           Rem(i) == (s[1] * Pow2Mod(i, s[2])) % s[2]
           bits == List([i \in 1..(MANT_DIG + 1) |->
                           IF 2 * Rem(i - 1) >= s[2] THEN 1 ELSE 0])
       IN RoundBits(s[3], bits, Rem(MANT_DIG + 1) # 0)

\* w[i] is the number held by the bits of a window that ends at bit i,
\* mod n; the windows double in length each pass, until each starts at
\* bit 1.
RECURSIVE PrefixMod(_, _, _)
PrefixMod(w, step, n) ==
  IF step >= Len(w) THEN w
  ELSE PrefixMod(
         List([i \in 1..Len(w) |->
                 IF i > step
                 THEN (w[i - step] * Pow2Mod(step, n) + w[i]) % n
                 ELSE w[i]]),
         2 * step, n)

\* x / n for a float x >= 0 and an int n > 0 (n becomes a float exactly):
\* the long division of the significand by n.  rem[i] is the remainder
\* after bit i, q[i] the quotient's bit there; the quotient starts at its
\* first 1 bit, at most n places down.
FloatDivInt(x, n) ==
  IF x.kind = "zero" THEN FloatZero
  ELSE LET ext == x.m \o Zeros(n + 1)
           rem == PrefixMod(List([i \in 1..Len(ext) |-> ext[i] % n]), 1, n)
           Before(i) == IF i = 1 THEN 0 ELSE rem[i - 1]
           q == List([i \in 1..Len(ext) |->
                        IF 2 * Before(i) + ext[i] >= n THEN 1 ELSE 0])
           first == CHOOSE j \in 1..Len(q) :
                      q[j] = 1 /\ \A i \in 1..(j - 1) : q[i] = 0
       IN RoundBits(x.e - (first - 1),
                    SubSeq(q, first, first + MANT_DIG),
                    rem[first + MANT_DIG] # 0)

\* x + y for floats x >= 0, y >= 0
FloatAdd(x, y) ==
  IF x.kind = "zero" THEN y
  ELSE IF y.kind = "zero" THEN x
  ELSE LET hi == IF x.e >= y.e THEN x ELSE y
           lo == IF x.e >= y.e THEN y ELSE x
           k == hi.e - lo.e
           s == AddBits(hi.m \o Zeros(k), Zeros(k) \o lo.m)
           t == StripBits(hi.e + 1, s)
       IN RoundBits(t[1], t[2], FALSE)

\* abs(x - y) for floats x >= 0, y >= 0
FloatAbsDiff(x, y) ==
  IF x = y THEN FloatZero
  ELSE IF x.kind = "zero" THEN y
  ELSE IF y.kind = "zero" THEN x
  ELSE LET hi == IF FloatLess(x, y) THEN y ELSE x
           lo == IF FloatLess(x, y) THEN x ELSE y
           k == hi.e - lo.e
           s == SubBits(hi.m \o Zeros(k), Zeros(k) \o lo.m)
           t == StripBits(hi.e, s)
       IN RoundBits(t[1], t[2], FALSE)

\* sum(xs) for a non-empty sequence of floats: the int 0, then one float
\* addition per item, left to right (the builtin of CPython up to 3.11)
RECURSIVE FloatSum(_, _, _)
FloatSum(xs, i, acc) ==
  IF i > Len(xs) THEN acc ELSE FloatSum(xs, i + 1, FloatAdd(acc, xs[i]))

(***************************************************************************)
(* calculate_index_of_coincidence, guess_key_length                        *)
(***************************************************************************)

\* xs[lo] + ... + xs[hi]
RECURSIVE SumSeq(_, _, _)
SumSeq(xs, lo, hi) ==
  IF lo > hi THEN 0
  ELSE IF lo = hi THEN xs[lo]
  ELSE SumSeq(xs, lo, (lo + hi) \div 2) + SumSeq(xs, ((lo + hi) \div 2) + 1, hi)

\* A variant of the numerator that sums n * n
ICNumeratorSquares(text) ==
  LET freq == count_letter_frequencies(text)
  IN SumSeq(List([j \in 1..Len(freq) |-> freq[j][2] * freq[j][2]]),
            1, Len(freq))

\* sum(n * (n - 1) for _, n in freq)
ICNumerator(text) ==
  LET freq == count_letter_frequencies(text)
  IN SumSeq(List([j \in 1..Len(freq) |-> freq[j][2] * (freq[j][2] - 1)]),
            1, Len(freq))

\* L * (L - 1)
ICDenominator(text) == Len(text) * (Len(text) - 1)

calculate_index_of_coincidence(text) ==
  IF Len(text) < 2 THEN FloatZero
  ELSE IntTrueDiv(ICNumerator(text), ICDenominator(text))

\* expected_ic = 0.056: the float nearest to 56/1000
expected_ic == IntTrueDiv(56, 1000)

\* avg_ic of one pass of the loop
AverageIC(text, possible_len) ==
  LET parts == SplitParts(text, possible_len)
      ics == List([i \in 1..possible_len |->
                     calculate_index_of_coincidence(parts[i])])
  IN FloatDivInt(FloatSum(ics, 1, FloatZero), possible_len)

\* One pass of the loop over possible_len: the (best_len, closest_ic_diff)
\* it leaves
GuessStep(text, possible_len, best) ==
  LET current_diff == FloatAbsDiff(AverageIC(text, possible_len), expected_ic)
  IN IF FloatLess(current_diff, best[2]) THEN <<possible_len, current_diff>>
     ELSE best

RECURSIVE GuessLoop(_, _, _, _)
GuessLoop(text, possible_len, maxLen, best) ==
  IF possible_len > maxLen THEN best
  ELSE GuessLoop(text, possible_len + 1, maxLen,
                 GuessStep(text, possible_len, best))

\* guess_key_length(ciphertext, max_len): best_len
guess_key_length(text, maxLen) == GuessLoop(text, 1, maxLen, <<1, FloatInf>>)[1]

\* max_len=15, the default every caller in the file uses
DEFAULT_MAX_LEN == 15

(***************************************************************************)
(* shift_char, shift_text, find_shift, decrypt_vigenere, crack_vigenere    *)
(***************************************************************************)

\* ALPHABET.index('о')
HintIndex == AlphabetIndex(1086)

\* Variants of shift_char: one that adds the shift, one that does not wrap
\* around the start of the alphabet
shift_char_added(c, s) ==
  AlphabetAt((AlphabetIndex(c) + s) % ALPHABET_LENGTH)

shift_char_clamped(c, s) ==
  AlphabetAt(IF AlphabetIndex(c) - s < 0 THEN 0 ELSE AlphabetIndex(c) - s)

shift_char(c, s) == AlphabetAt((AlphabetIndex(c) - s) % ALPHABET_LENGTH)

shift_text(text, s) ==
  List([i \in 1..Len(text) |-> shift_char(text[i], s)])

find_shift(part) ==
  LET freq == count_letter_frequencies(part)
  IN IF freq = << >> THEN 0
     ELSE (AlphabetIndex(freq[1][1]) - HintIndex) % ALPHABET_LENGTH

\* ''.join(parts[i % n][i // n] for i in range(length)); the join raises
\* IndexError when a part it needs is missing
Interleave(parts, n, length) ==
  List([k \in 1..length |-> parts[((k - 1) % n) + 1][((k - 1) \div n) + 1]])

\* [ALPHABET.index(c) for c in key.lower() if c in ALPHABET]
KeyShifts(k) ==
  LET cs == clean_text(k) IN List([i \in 1..Len(cs) |-> AlphabetIndex(cs[i])])

decrypt_vigenere(text, k) ==
  LET cleaned == clean_text(text)
      ks == KeyShifts(k)
      n == Len(ks)
      parts == SplitParts(cleaned, n)
      plaintext_parts == List([i \in 1..n |-> shift_text(parts[i], ks[i])])
  IN IF ks = << >> THEN text
     ELSE Interleave(plaintext_parts, n, Len(cleaned))

Min(a, b) == IF a < b THEN a ELSE b

\* crack_vigenere up to the SOLVING banner: the cleaned text, the guessed key
\* length, the parts and the likely shifts
CrackAnalyze(text) ==
  LET cleaned == clean_text(text)
      n == guess_key_length(cleaned, DEFAULT_MAX_LEN)
      parts == SplitParts(cleaned, n)
  IN [ciphertext |-> cleaned, key_length |-> n, parts |-> parts,
      likely_shifts |-> List([i \in 1..n |-> find_shift(parts[i])])]

\* crack_vigenere from the SOLVING banner on, for shifts in range(33):
\* zip() stops at the shorter of parts and shifts, and the join raises
\* IndexError when it needs a part zip() did not produce
CrackSolve(a, sh) ==
  LET zipped == Min(a.key_length, Len(sh))
      plaintext_parts ==
        List([i \in 1..zipped |-> shift_text(a.parts[i], sh[i])])
      k == List([i \in 1..Len(sh) |-> AlphabetAt(sh[i])])
  IN IF zipped < Min(a.key_length, Len(a.ciphertext))
     THEN [raised |-> "IndexError", plaintext |-> << >>, key |-> << >>]
     ELSE [raised |-> "",
           plaintext |-> Interleave(plaintext_parts, a.key_length,
                                    Len(a.ciphertext)),
           key |-> k]

(***************************************************************************)
(* The arguments the calls are made with                                   *)
(***************************************************************************)

\* Sequences over S of length at most n
SeqsUpTo(S, n) == UNION {[1..m -> S] : m \in 0..n}

MaxTextLen == 5
MaxKeyLen == 2
MaxShifts == 2

\* ' ', 'Ё', 'а', 'о': a character clean_text drops, one it lowers and two
\* it keeps
RawChars == {32, 1025, 1072, 1086}
RawTexts == SeqsUpTo(RawChars, MaxTextLen)

\* '-', 'б', 'Я': no shift, the shift 1 and, once lowered, the shift 32
KeyChars == {45, 1073, 1071}
KeyArgs == SeqsUpTo(KeyChars, MaxKeyLen)

ShiftValues == {0, 1, 32}
ShiftArgs == SeqsUpTo(ShiftValues, MaxShifts)

(***************************************************************************)
(* The calls of decrypt_vigenere and crack_vigenere main() makes           *)
(***************************************************************************)

Init ==
  /\ pc = "start"
  /\ ciphertext \in RawTexts
  /\ key = << >>
  /\ shifts = << >>
  /\ max_len = DEFAULT_MAX_LEN
  /\ plaintext = << >>
  /\ key_length = 0
  /\ key_shifts = << >>
  /\ likely_shifts = << >>
  /\ line = << >>
  /\ shift = << >>
  /\ raised = ""
  /\ result = << >>

\* plaintext = decrypt_vigenere(ciphertext, args.key)
CallDecrypt ==
  /\ pc = "start"
  /\ \E k \in KeyArgs :
       /\ key' = k
       /\ key_shifts' = KeyShifts(k)
       /\ key_length' = Len(KeyShifts(k))
       /\ plaintext' = decrypt_vigenere(ciphertext, k)
  /\ pc' = "decrypted"
  /\ UNCHANGED <<ciphertext, shifts, max_len, likely_shifts, line, shift,
                 raised, result>>

\* plaintext, key = crack_vigenere(ciphertext, args.shifts)
CallCrack ==
  /\ pc = "start"
  /\ \E a \in {CrackAnalyze(ciphertext)} :
       \E sh \in ShiftArgs :
         \E r \in {CrackSolve(a, sh)} :
           /\ shifts' = sh
           /\ key_length' = a.key_length
           /\ likely_shifts' = a.likely_shifts
           /\ raised' = r.raised
           /\ plaintext' = r.plaintext
           /\ key' = r.key
           /\ pc' = IF r.raised = "" THEN "cracked" ELSE "raised"
  /\ UNCHANGED <<ciphertext, max_len, key_shifts, line, shift, result>>

Next == CallDecrypt \/ CallCrack

Spec == Init /\ [][Next]_vars

(***************************************************************************)
(* Claims about the calls of decrypt_vigenere and crack_vigenere           *)
(***************************************************************************)

\* The symbol sequence the column rotation by the shifts sh leaves of the
\* cleaned text c: position k holds the symbol of index
\* (index(c[k]) - sh[k mod N]) mod 33
Rotated(c, sh) ==
  [k \in 1..Len(c) |->
     ALPHABET[((AlphabetIndex(c[k]) - sh[((k - 1) % Len(sh)) + 1]) % 33) + 1]]

\* C1: for every raw ciphertext and every key whose lowered, filtered form
\* has N >= 1 symbols of indices s_0..s_(N-1), decrypt_vigenere returns a
\* sequence as long as c = clean_text(ciphertext) whose symbol at every
\* position k has index (index(c[k]) - s_(k mod N)) mod 33, also when
\* N > len(c).
C1_DecryptPositional ==
  (pc = "decrypted" /\ Len(key_shifts) >= 1) =>
    LET c == clean_text(ciphertext)
    IN /\ Len(plaintext) = Len(c)
       /\ \A k \in 1..Len(c) :
            /\ InAlphabet(plaintext[k])
            /\ AlphabetIndex(plaintext[k]) =
                 (AlphabetIndex(c[k])
                    - key_shifts[((k - 1) % Len(key_shifts)) + 1]) % 33

\* A decrypt with two different shifts over three symbols (the first column
\* holds two of them) of a raw text that clean_text shortened
C1_Witness ==
  /\ pc = "decrypted"
  /\ key_shifts = <<1, 32>>
  /\ Len(clean_text(ciphertext)) = 3
  /\ Len(ciphertext) = 4
  /\ plaintext # clean_text(ciphertext)

\* C1, the case N > len(c): a key of two shifts on a single symbol
C1_WitnessLongKey ==
  /\ pc = "decrypted"
  /\ Len(key_shifts) = 2
  /\ Len(plaintext) = 1

\* C7 as stated: when the key holds no alphabet symbol, decrypt_vigenere
\* returns clean_text(ciphertext), so its result holds only alphabet symbols.
C7_EmptyKeyReturnsCleaned ==
  (pc = "decrypted" /\ key_shifts = << >>) =>
    /\ plaintext = clean_text(ciphertext)
    /\ \A k \in 1..Len(plaintext) : InAlphabet(plaintext[k])

\* C3 as stated: for every ciphertext and every shift list sh of length
\* M >= 1, crack_vigenere returns the plaintext whose position k has index
\* (index(c[k]) - sh[k mod M]) mod 33 and the key of the M symbols
\* ALPHABET[sh[i]], whatever guess_key_length computed.
C3_ManualShiftsDecide ==
  (pc \in {"cracked", "raised"} /\ Len(shifts) >= 1) =>
    /\ raised = ""
    /\ plaintext = Rotated(clean_text(ciphertext), shifts)
    /\ key = [i \in 1..Len(shifts) |-> ALPHABET[shifts[i] + 1]]

\* C8 as stated: a call whose shift list (crack_vigenere) or filtered key
\* (decrypt_vigenere) has a length <= 0 or above the length of the cleaned
\* ciphertext is rejected and returns no plaintext.
C8_OutOfRangeRejected ==
  LET n == IF pc = "decrypted" THEN Len(key_shifts) ELSE Len(shifts)
  IN (pc # "start" /\ (n <= 0 \/ n > Len(clean_text(ciphertext)))) =>
       raised # ""

(***************************************************************************)
(* interactive_crack, one step per line read from the console              *)
(***************************************************************************)

\* str.strip() of the whitespace the inputs use (' ', tab, newline)
IsSpace(c) == c \in {32, 9, 10}

Strip(s) ==
  LET keep == {i \in 1..Len(s) : ~IsSpace(s[i])}
  IN IF keep = {} THEN << >>
     ELSE LET lo == CHOOSE i \in keep : \A j \in keep : i <= j
              hi == CHOOSE i \in keep : \A j \in keep : j <= i
          IN List([i \in 1..(hi - lo + 1) |-> s[lo + i - 1]])

IsDigit(c) == c >= 48 /\ c <= 57

RECURSIVE DigitsValue(_, _)
\* The value of the decimal digits d[1..n]
DigitsValue(d, n) ==
  IF n = 0 THEN 0 ELSE 10 * DigitsValue(d, n - 1) + (d[n] - 48)

\* int(s) for the ASCII grammar [space]* [+-]? digit+ [space]*: <<value>>,
\* or << >> where int() raises ValueError
ParseInt(s) ==
  LET t == Strip(s)
      signed == t # << >> /\ t[1] \in {43, 45}
      digits == IF signed THEN Tail(t) ELSE t
  IN IF digits = << >> \/ \E i \in 1..Len(digits) : ~IsDigit(digits[i])
     THEN << >>
     ELSE IF signed /\ t[1] = 45
          THEN <<0 - DigitsValue(digits, Len(digits))>>
          ELSE <<DigitsValue(digits, Len(digits))>>

\* The lines the console delivers: "0", " 32 ", "33", "-1", "x"
ConsoleLines ==
  {<<48>>, <<32, 51, 50, 32>>, <<51, 51>>, <<45, 49>>, <<120>>}

\* Lines 102-107: clean, guess the key length, start with no shift; the
\* loop over the parts then blocks on the first prompt (there is always at
\* least one part)
InteractiveStart ==
  /\ pc = "start"
  /\ ciphertext' = clean_text(ciphertext)
  /\ key_length' = guess_key_length(clean_text(ciphertext), DEFAULT_MAX_LEN)
  /\ key_shifts' = << >>
  /\ pc' = "prompt"
  /\ UNCHANGED <<key, shifts, max_len, plaintext, likely_shifts, line, shift,
                 raised, result>>

\* int(input(...)) raises ValueError: the loop prompts again
InputNotInteger ==
  /\ pc = "prompt"
  /\ \E l \in ConsoleLines :
       /\ ParseInt(l) = << >>
       /\ line' = l
  /\ UNCHANGED <<pc, ciphertext, key, shifts, max_len, plaintext, key_length,
                 key_shifts, likely_shifts, shift, raised, result>>

\* The integer fails 0 <= shift < ALPHABET_LENGTH: the loop prompts again
InputOutOfRange ==
  /\ pc = "prompt"
  /\ \E l \in ConsoleLines :
       /\ ParseInt(l) # << >>
       /\ ~(0 <= ParseInt(l)[1] /\ ParseInt(l)[1] < ALPHABET_LENGTH)
       /\ line' = l
       /\ shift' = ParseInt(l)
  /\ UNCHANGED <<pc, ciphertext, key, shifts, max_len, plaintext, key_length,
                 key_shifts, likely_shifts, raised, result>>

\* A variant of the step below that only checks 0 <= shift
InputAcceptedUnbounded ==
  /\ pc = "prompt"
  /\ \E l \in ConsoleLines :
       /\ ParseInt(l) # << >>
       /\ 0 <= ParseInt(l)[1]
       /\ line' = l
       /\ shift' = ParseInt(l)
       /\ key_shifts' = Append(key_shifts, ParseInt(l)[1])
  /\ IF Len(key_shifts') < key_length
     THEN /\ pc' = "prompt"
          /\ UNCHANGED <<key, plaintext>>
     ELSE /\ pc' = "returned"
          /\ key' = List([i \in 1..Len(key_shifts') |->
                            AlphabetAt((key_shifts'[i] % ALPHABET_LENGTH))])
          /\ plaintext' = decrypt_vigenere(ciphertext, key')
  /\ UNCHANGED <<ciphertext, shifts, max_len, key_length, likely_shifts,
                 raised, result>>

\* The integer is in range: break, append, and go on to the next part's
\* prompt or, after the last part, to the key, the decryption and the return
InputAccepted ==
  /\ pc = "prompt"
  /\ \E l \in ConsoleLines :
       /\ ParseInt(l) # << >>
       /\ 0 <= ParseInt(l)[1] /\ ParseInt(l)[1] < ALPHABET_LENGTH
       /\ line' = l
       /\ shift' = ParseInt(l)
       /\ key_shifts' = Append(key_shifts, ParseInt(l)[1])
  /\ IF Len(key_shifts') < key_length
     THEN /\ pc' = "prompt"
          /\ UNCHANGED <<key, plaintext>>
     ELSE /\ pc' = "returned"
          /\ key' = List([i \in 1..Len(key_shifts') |->
                            AlphabetAt(key_shifts'[i])])
          /\ plaintext' = decrypt_vigenere(ciphertext, key')
  /\ UNCHANGED <<ciphertext, shifts, max_len, key_length, likely_shifts,
                 raised, result>>

\* input() meets the end of the console: EOFError is not caught
InputEnds ==
  /\ pc = "prompt"
  /\ raised' = "EOFError"
  /\ pc' = "raised"
  /\ UNCHANGED <<ciphertext, key, shifts, max_len, plaintext, key_length,
                 key_shifts, likely_shifts, line, shift, result>>

NextInteractive ==
  \/ InteractiveStart
  \/ InputNotInteger
  \/ InputOutOfRange
  \/ InputAccepted
  \/ InputEnds

SpecInteractive == Init /\ [][NextInteractive]_vars

\* C10: in interactive_crack the prompt loop of a column is left only on a
\* line that parses as an integer in [0, 33), which is appended to
\* key_shifts; any other line leaves key_shifts unchanged and prompts the
\* same column again.  So key_shifts always holds only values in [0, 33), at
\* most one per column, and on return the key has exactly key_length
\* symbols, the i-th being ALPHABET[the shift accepted for column i].
C10_PromptLoop ==
  /\ [](/\ \A i \in 1..Len(key_shifts) :
             key_shifts[i] >= 0 /\ key_shifts[i] < 33
        /\ pc \in {"prompt", "returned", "raised"} =>
             Len(key_shifts) <= key_length
        /\ pc = "prompt" => Len(key_shifts) < key_length
        /\ pc = "returned" =>
             /\ Len(key_shifts) = key_length
             /\ Len(key) = key_length
             /\ \A i \in 1..key_length : key[i] = ALPHABET[key_shifts[i] + 1])
  /\ [][pc = "prompt" =>
          LET v == ParseInt(line')
              valid == v # << >> /\ v[1] >= 0 /\ v[1] < 33
          IN \/ /\ valid
                /\ key_shifts' = Append(key_shifts, v[1])
                /\ pc' \in {"prompt", "returned"}
             \/ /\ ~valid
                /\ key_shifts' = key_shifts
                /\ pc' = "prompt"
             \/ /\ pc' = "raised"
                /\ key_shifts' = key_shifts
                /\ line' = line]_vars

\* A return after three columns, the shifts 32, 0, 32 accepted in that order
C10_Witness ==
  /\ pc = "returned"
  /\ key_length = 3
  /\ key_shifts = <<32, 0, 32>>
  /\ key = <<1103, 1072, 1103>>
  /\ line = <<32, 51, 50, 32>>

(***************************************************************************)
(* The pure functions, called on bounded arguments                         *)
(***************************************************************************)

MaxFnLen == 5
MaxMaxLen == 4

\* 'а', 'о', 'я'
FnChars == {1072, 1086, 1103}
FnTexts == SeqsUpTo(FnChars, MaxFnLen)

\* 'гдаббддввгб': the columns of the strides 2 and 4 have the same mean
\* index of coincidence, 1/12
TiedMeansText ==
  <<1075, 1076, 1072, 1073, 1073, 1076, 1076, 1074, 1074, 1075, 1073>>

\* (text, max_len) pairs
FnArgs ==
  (FnTexts \X (1..MaxMaxLen)) \cup {<<TiedMeansText, DEFAULT_MAX_LEN>>}

InitFn ==
  /\ pc = "start"
  /\ \E a \in FnArgs :
       /\ ciphertext = a[1]
       /\ max_len = a[2]
  /\ key = << >>
  /\ shifts = << >>
  /\ plaintext = << >>
  /\ key_length = 0
  /\ key_shifts = << >>
  /\ likely_shifts = << >>
  /\ line = << >>
  /\ shift = << >>
  /\ raised = ""
  /\ result = << >>

CallFindShift ==
  /\ pc = "start"
  /\ result' = find_shift(ciphertext)
  /\ pc' = "find_shift"
  /\ UNCHANGED <<ciphertext, key, shifts, max_len, plaintext, key_length,
                 key_shifts, likely_shifts, line, shift, raised>>

CallIndexOfCoincidence ==
  /\ pc = "start"
  /\ result' = calculate_index_of_coincidence(ciphertext)
  /\ pc' = "index_of_coincidence"
  /\ UNCHANGED <<ciphertext, key, shifts, max_len, plaintext, key_length,
                 key_shifts, likely_shifts, line, shift, raised>>

CallGuessKeyLength ==
  /\ pc = "start"
  /\ result' = guess_key_length(ciphertext, max_len)
  /\ pc' = "guess_key_length"
  /\ UNCHANGED <<ciphertext, key, shifts, max_len, plaintext, key_length,
                 key_shifts, likely_shifts, line, shift, raised>>

NextFn == CallFindShift \/ CallIndexOfCoincidence \/ CallGuessKeyLength

SpecFn == InitFn /\ [][NextFn]_vars

\* The symbols of text, and how often and where first each occurs
Symbols(text) == {text[i] : i \in 1..Len(text)}
Occurrences(text, c) == Cardinality({i \in 1..Len(text) : text[i] = c})
FirstOccurrence(text, c) ==
  CHOOSE i \in 1..Len(text) :
    text[i] = c /\ \A j \in 1..(i - 1) : text[j] # c

\* C5: find_shift returns 0 for an empty column and otherwise
\* (index(m) - index('о')) mod 33, a value in [0, 33), where m is the most
\* frequent symbol of the column and, among several symbols of the highest
\* count, the one whose first occurrence is earliest.
C5_FindShift ==
  pc = "find_shift" =>
    /\ result \in 0..32
    /\ ciphertext = << >> => result = 0
    /\ ciphertext # << >> =>
         \E m \in Symbols(ciphertext) :
           /\ \A c \in Symbols(ciphertext) :
                \/ Occurrences(ciphertext, c) < Occurrences(ciphertext, m)
                \/ /\ Occurrences(ciphertext, c) = Occurrences(ciphertext, m)
                   /\ FirstOccurrence(ciphertext, m)
                        <= FirstOccurrence(ciphertext, c)
           /\ result = (AlphabetIndex(m) - AlphabetIndex(1086)) % 33

\* find_shift('яаая'): 'я' and 'а' tie with two each, 'я' was seen first
C5_Witness ==
  /\ pc = "find_shift"
  /\ ciphertext = <<1103, 1072, 1072, 1103>>
  /\ result = 17

RECURSIVE SumPairs(_, _)
\* The sum over the symbols of S of n * (n - 1), n the count of the symbol
SumPairs(text, S) ==
  IF S = {} THEN 0
  ELSE LET c == CHOOSE x \in S : TRUE
       IN Occurrences(text, c) * (Occurrences(text, c) - 1)
            + SumPairs(text, S \ {c})

FloatOne == IntTrueDiv(1, 1)

\* C6 (the parts that hold of every sequence): with num the sum over the
\* distinct symbols of n*(n-1) and den = L*(L-1), a non-empty sequence has
\* 0 <= num <= den and an index of coincidence in [0, 1]; a sequence of
\* length < 2 has the index 0, computed without a division.
ICInRange ==
  LET L == Len(ciphertext)
      num == SumPairs(ciphertext, Symbols(ciphertext))
      den == L * (L - 1)
  IN /\ L >= 1 => /\ 0 <= num /\ num <= den
                  /\ ~FloatLess(result, FloatZero)
                  /\ ~FloatLess(FloatOne, result)
     /\ L >= 2 => den > 0 /\ result = IntTrueDiv(num, den)
     /\ L < 2 => result = FloatZero

\* C6, amended: the bounds above, and a sequence of length >= 2 whose symbols
\* are all identical has num = den and the index of coincidence 1.
C6_ICBounds ==
  pc = "index_of_coincidence" =>
    /\ ICInRange
    /\ (Len(ciphertext) >= 2 /\ Cardinality(Symbols(ciphertext)) = 1) =>
         /\ SumPairs(ciphertext, Symbols(ciphertext))
              = Len(ciphertext) * (Len(ciphertext) - 1)
         /\ result = FloatOne

\* C6 as stated: the bounds above, and every sequence whose symbols are all
\* identical has the index of coincidence 1.
C6_AsStated ==
  pc = "index_of_coincidence" =>
    /\ ICInRange
    /\ Cardinality(Symbols(ciphertext)) = 1 => result = FloatOne

\* calculate_index_of_coincidence('ооо') = 6/6
C6_Witness ==
  /\ pc = "index_of_coincidence"
  /\ ciphertext = <<1086, 1086, 1086>>
  /\ result = FloatOne

RECURSIVE Gcd(_, _)
Gcd(a, b) == IF b = 0 THEN a ELSE Gcd(b, a % b)

RECURSIVE PairsLcm(_)
\* The least common multiple of k*(k-1) for k in 2..n: a common denominator
\* of the indices of coincidence of all columns of at most n symbols
PairsLcm(n) ==
  IF n < 2 THEN 1
  ELSE LET d == PairsLcm(n - 1) IN (d * n * (n - 1)) \div Gcd(d, n * (n - 1))

\* The exact index of coincidence of a column, times the common denominator D
ScaledIC(col, D) ==
  IF Len(col) < 2 THEN 0
  ELSE SumPairs(col, Symbols(col)) * (D \div (Len(col) * (Len(col) - 1)))

RECURSIVE ScaledICSum(_, _, _, _)
\* The sum of ScaledIC over the columns i..N of the stride N
ScaledICSum(text, N, i, D) ==
  IF i > N THEN 0
  ELSE ScaledIC([j \in 1..((Len(text) - i + N) \div N) |->
                   text[i + (j - 1) * N]], D)
         + ScaledICSum(text, N, i + 1, D)

\* |meanIC(N) - 56/1000| as the exact fraction DiffNum / (125 * D * N)
DiffNum(text, N) ==
  LET D == PairsLcm(Len(text))
      x == 125 * ScaledICSum(text, N, 1, D) - 7 * D * N
  IN IF x < 0 THEN 0 - x ELSE x

\* |meanIC(N) - 0.056| < |meanIC(M) - 0.056|
StrictlyCloser(text, N, M) == DiffNum(text, N) * M < DiffNum(text, M) * N

\* C4 as stated: guess_key_length(seq, maxLen) returns the smallest N in
\* 1..maxLen that minimises |meanIC(N) - 0.056|, the mean taken over the N
\* columns of the stride N (a column shorter than 2 contributing 0).
C4_SmallestMinimiser ==
  pc = "guess_key_length" =>
    /\ result \in 1..max_len
    /\ \A M \in 1..max_len : ~StrictlyCloser(ciphertext, M, result)
    /\ \A M \in 1..(result - 1) : StrictlyCloser(ciphertext, result, M)

(***************************************************************************)
(* Encoding and decoding in turn                                           *)
(***************************************************************************)

\* The key whose shifts are (33 - s_i) mod 33 for the shifts s_i of k
NegatedKey(k) ==
  LET ks == KeyShifts(k)
  IN List([i \in 1..Len(ks) |->
             AlphabetAt((ALPHABET_LENGTH - ks[i]) % ALPHABET_LENGTH)])

\* The column operation of decrypt_vigenere with every shift negated
encode(text, k) == decrypt_vigenere(text, NegatedKey(k))

MaxRtLen == 4
MaxRtKeyLen == 4

\* 'а', 'о', 'я' (the first, a middle and the last symbol of the alphabet)
RtChars == {1072, 1086, 1103}
\* 'б', 'о', 'я': the shifts 1, 15 and 32
RtKeyChars == {1073, 1086, 1103}

InitRoundTrip ==
  /\ pc = "start"
  /\ ciphertext \in SeqsUpTo(RtChars, MaxRtLen)
  /\ key \in SeqsUpTo(RtKeyChars, MaxRtKeyLen)
  /\ shifts = << >>
  /\ max_len = DEFAULT_MAX_LEN
  /\ plaintext = << >>
  /\ key_length = 0
  /\ key_shifts = << >>
  /\ likely_shifts = << >>
  /\ line = << >>
  /\ shift = << >>
  /\ raised = ""
  /\ result = << >>

EncodeFirst ==
  /\ pc = "start"
  /\ plaintext' = encode(ciphertext, key)
  /\ pc' = "encoded"
  /\ UNCHANGED <<ciphertext, key, shifts, max_len, key_length, key_shifts,
                 likely_shifts, line, shift, raised, result>>

DecodeSecond ==
  /\ pc = "encoded"
  /\ result' = decrypt_vigenere(plaintext, key)
  /\ pc' = "encoded_decoded"
  /\ UNCHANGED <<ciphertext, key, shifts, max_len, plaintext, key_length,
                 key_shifts, likely_shifts, line, shift, raised>>

DecodeFirst ==
  /\ pc = "start"
  /\ plaintext' = decrypt_vigenere(ciphertext, key)
  /\ pc' = "decoded"
  /\ UNCHANGED <<ciphertext, key, shifts, max_len, key_length, key_shifts,
                 likely_shifts, line, shift, raised, result>>

EncodeSecond ==
  /\ pc = "decoded"
  /\ result' = encode(plaintext, key)
  /\ pc' = "decoded_encoded"
  /\ UNCHANGED <<ciphertext, key, shifts, max_len, plaintext, key_length,
                 key_shifts, likely_shifts, line, shift, raised>>

NextRoundTrip == EncodeFirst \/ DecodeSecond \/ DecodeFirst \/ EncodeSecond

SpecRoundTrip == InitRoundTrip /\ [][NextRoundTrip]_vars

\* C2: for any symbol sequence s over the alphabet and any key k of length
\* 1..len(s), decode(encode(s, k), k) = s and encode(decode(s, k), k) = s.
C2_RoundTrip ==
  (/\ pc \in {"encoded_decoded", "decoded_encoded"}
   /\ Len(key) >= 1
   /\ Len(key) <= Len(ciphertext)) => result = ciphertext

\* decode(encode('аяо', 'яб'), 'яб'): the encoding wraps 'а' + 32 around to
\* 'я' and 'я' + 1 around to 'а'
C2_Witness ==
  /\ pc = "encoded_decoded"
  /\ ciphertext = <<1072, 1103, 1086>>
  /\ key = <<1103, 1073>>
  /\ plaintext = <<1103, 1072, 1085>>
  /\ result = ciphertext

(***************************************************************************)
(* Encoding a text and running the estimators on the ciphertext            *)
(***************************************************************************)

\* 'этоприменертекстадлятестированияалгоритма'
ScenarioPlaintext ==
  << 1101, 1090, 1086, 1087, 1088, 1080, 1084, 1077, 1085, 1077,
     1088, 1090, 1077, 1082, 1089, 1090, 1072, 1076, 1083, 1103,
     1090, 1077, 1089, 1090, 1080, 1088, 1086, 1074, 1072, 1085,
     1080, 1103, 1072, 1083, 1075, 1086, 1088, 1080, 1090, 1084,
     1072 >>

\* 'ключ'
ScenarioKey == <<1082, 1083, 1102, 1095>>

\* The plaintexts are the scenario's, cut short by at most this many symbols
MaxCut == 30

InitScenario ==
  /\ pc = "start"
  /\ \E cut \in 0..MaxCut :
       plaintext = SubSeq(ScenarioPlaintext, 1, Len(ScenarioPlaintext) - cut)
  /\ key = ScenarioKey
  /\ ciphertext = << >>
  /\ shifts = << >>
  /\ max_len = DEFAULT_MAX_LEN
  /\ key_length = 0
  /\ key_shifts = << >>
  /\ likely_shifts = << >>
  /\ line = << >>
  /\ shift = << >>
  /\ raised = ""
  /\ result = << >>

\* The ciphertext C
ScenarioEncode ==
  /\ pc = "start"
  /\ ciphertext' = encode(plaintext, key)
  /\ pc' = "encoded"
  /\ UNCHANGED <<key, shifts, max_len, plaintext, key_length, key_shifts,
                 likely_shifts, line, shift, raised, result>>

\* key_length = guess_key_length(ciphertext)
ScenarioGuess ==
  /\ pc = "encoded"
  /\ key_length' = guess_key_length(clean_text(ciphertext), max_len)
  /\ pc' = "guessed"
  /\ UNCHANGED <<ciphertext, key, shifts, max_len, plaintext, key_shifts,
                 likely_shifts, line, shift, raised, result>>

\* likely_shifts = [find_shift(part) for part in parts]
ScenarioFindShifts ==
  /\ pc = "guessed"
  /\ likely_shifts' =
       LET parts == SplitParts(clean_text(ciphertext), key_length)
       IN List([i \in 1..key_length |-> find_shift(parts[i])])
  /\ pc' = "shifts_found"
  /\ UNCHANGED <<ciphertext, key, shifts, max_len, plaintext, key_length,
                 key_shifts, line, shift, raised, result>>

\* The decryption with the key assembled from the likely shifts
ScenarioDecode ==
  /\ pc = "shifts_found"
  /\ key_shifts' = likely_shifts
  /\ result' = decrypt_vigenere(ciphertext,
                  List([i \in 1..Len(likely_shifts) |->
                          AlphabetAt(likely_shifts[i])]))
  /\ pc' = "decoded"
  /\ UNCHANGED <<ciphertext, key, shifts, max_len, plaintext, key_length,
                 likely_shifts, line, shift, raised>>

NextScenario ==
  ScenarioEncode \/ ScenarioGuess \/ ScenarioFindShifts \/ ScenarioDecode

SpecScenario == InitScenario /\ [][NextScenario]_vars

\* C9 as stated: for the plaintext 'этоприменертекстадлятестированияалгоритма'
\* encoded with the key 'ключ', guess_key_length (max_len 15) returns 4 and
\* the key assembled from find_shift on each column decodes the ciphertext
\* back to the plaintext.
C9_ScenarioRecovered ==
  (pc = "decoded" /\ plaintext = ScenarioPlaintext) =>
    /\ key_length = 4
    /\ result = plaintext

====
